---- MODULE Spec2Model ----
(***************************************************************************)
(* The cohort bot (src/unnamed/part_000, lines 126-326): handler,          *)
(* submitCohortRequest, createCohortGroup, executeQuery,                   *)
(* extractPatientIds and performSetOperation.                              *)
(*                                                                         *)
(* After the cohort bot: the create-cohort page that executes it           *)
(* (CreateCohortPage.tsx), the lang2fhir-create bot (src/unnamed/part_001) *)
(* and the natural-language create page (ResourceLang2FHIRCreatePage.tsx), *)
(* each under a specification of its own.                                  *)
(*                                                                         *)
(* Strings the code takes apart or builds (references, identifiers,        *)
(* descriptions) are sequences of tokens; no token contains the separator  *)
(* "/" or whitespace except the tokens "/" and " " themselves.  Strings    *)
(* the code only copies (searchParams, rationale) are plain strings.       *)
(* A JavaScript value that may be undefined is None or Some(v).            *)
(***************************************************************************)
EXTENDS Integers, Sequences, FiniteSets, TLC

VARIABLES
    input,             \* handler: event.input
    pc,                \* position of the handler
    error,             \* the error the handler rejected with, "none" while it has not
    errorParts,        \* the upstream values interpolated into that error's message
    bearerToken,       \* submitCohortRequest: bearerToken
    cohortOutput,      \* handler: cohortResponse / createCohortGroup: cohortOutput
    currentPatientIds, \* createCohortGroup: currentPatientIds
    extensions,        \* createCohortGroup: extensions
    qi,                \* createCohortGroup: number of queries the for loop has completed
    patientIds,        \* executeQuery: patientIds
    pageNo,            \* executeQuery: number of pages the for-await loop has consumed
    results,           \* the record store's answer to each search started so far
    store,             \* the record store: the resources created in it
    returned,          \* what the handler resolved with
    calls,             \* the requests sent so far, in order
    previous,          \* the run of createCohortGroup before this one, if any
    inputText,         \* ResourceLang2FHIRCreatePage: inputText
    isRecording,       \* ResourceLang2FHIRCreatePage: isRecording
    isProcessing,      \* ResourceLang2FHIRCreatePage: isProcessing
    loading,           \* ResourceLang2FHIRCreatePage: loading
    navigated,         \* ResourceLang2FHIRCreatePage: navigate was called, the page is left
    recorders,         \* the MediaRecorder of each recording and what became of it
    botInput           \* ResourceLang2FHIRCreatePage.handleSubmit: botInput, once sent

\* The state of the bots and of the create-cohort page.
botVars == <<input, pc, error, errorParts, bearerToken, cohortOutput, currentPatientIds,
             extensions, qi, patientIds, pageNo, results, store, returned, calls, previous>>

\* The state of the natural-language create page.
pageVars == <<inputText, isRecording, isProcessing, loading, navigated, recorders, botInput>>

vars == <<botVars, pageVars>>

\* The longest query list the resolver returns in the model.
MaxQueries == 2

\* The number of recordings made on the natural-language create page.
MaxRecordings == 2

None == <<>>
Some(v) == <<v>>

Range(s) == {s[i] : i \in 1..Len(s)}

\* The natural-language create page as it is mounted (lines 25-36 of
\* ResourceLang2FHIRCreatePage.tsx): no text, nothing recorded, nothing sent.
PageUnused ==
    /\ inputText = <<>>
    /\ isRecording = FALSE
    /\ isProcessing = FALSE
    /\ loading = FALSE
    /\ navigated = FALSE
    /\ recorders = [n \in 1..MaxRecordings |-> "none"]
    /\ botInput = None

(***************************************************************************)
(* JavaScript helpers                                                      *)
(***************************************************************************)

\* String.prototype.split with a one-token separator.
RECURSIVE Split(_, _)
Split(s, sep) ==
    IF \A i \in 1..Len(s) : s[i] # sep
    THEN <<s>>
    ELSE LET i == CHOOSE k \in 1..Len(s) :
                      s[k] = sep /\ \A j \in 1..(k - 1) : s[j] # sep
         IN  <<SubSeq(s, 1, i - 1)>> \o Split(SubSeq(s, i + 1, Len(s)), sep)

\* Variant: the array is used as it is, without the Set.
ArrayKeepAll(arr) == arr

\* Array.from(new Set(arr)): the first occurrence of each element, in order.
RECURSIVE ArrayFromSet(_)
ArrayFromSet(arr) ==
    IF arr = <<>>
    THEN <<>>
    ELSE LET init == ArrayFromSet(SubSeq(arr, 1, Len(arr) - 1))
             last == arr[Len(arr)]
         IN  IF last \in Range(init) THEN init ELSE Append(init, last)

\* Variant: /\s/g, every whitespace character becomes a hyphen of its own.
ReplaceEachWhitespace(s) == [i \in 1..Len(s) |-> IF s[i] \in {" ", "\t"} THEN "-" ELSE s[i]]

\* str.replace(/\s+/g, '-'): every maximal run of whitespace becomes one hyphen.
IsSpace(t) == t \in {" ", "\t"}

RECURSIVE ReplaceWhitespace(_)
ReplaceWhitespace(s) ==
    IF s = <<>>
    THEN <<>>
    ELSE IF IsSpace(s[1])
         THEN IF Len(s) > 1 /\ IsSpace(s[2])
              THEN ReplaceWhitespace(Tail(s))
              ELSE <<"-">> \o ReplaceWhitespace(Tail(s))
         ELSE <<s[1]>> \o ReplaceWhitespace(Tail(s))

(***************************************************************************)
(* Inputs: the resolver's answers and the record store's search results    *)
(***************************************************************************)

\* CohortBotInput: the text is missing, empty or a description.
Inputs ==
    {[text |-> t] : t \in {None, Some(""), Some("over 40 with hyperlipidemia")}}

\* What a request to the PhenoML API ends with: no response at all (fetch
\* rejects with a message), a response that is not ok, or a response that is.
Outcome(kind, status, message) == [kind |-> kind, status |-> status, message |-> message]

TransportFailures == {Outcome("transport", "", "connect ECONNREFUSED")}

HttpFailures ==
    {Outcome("http", "401", "Unauthorized"),
     Outcome("http", "500", "Internal Server Error")}

HttpOk == Outcome("ok", "200", "OK")

QPatientInclude ==
    [resource |-> "Patient", searchParams |-> "age=gt40",
     exclude |-> FALSE, rationale |-> None]
QConditionInclude ==
    [resource |-> "Condition", searchParams |-> "code=hyperlipidemia",
     exclude |-> FALSE, rationale |-> Some("patients with hyperlipidemia")]
QConditionExclude ==
    [resource |-> "Condition", searchParams |-> "code=diabetes",
     exclude |-> TRUE, rationale |-> Some("")]

QueryPool == {QPatientInclude, QConditionInclude, QConditionExclude}

QueryLists == UNION {[1..n -> QueryPool] : n \in 0..MaxQueries}

Descriptions == {None, Some(<<>>), Some(<<"over", " ", "\t", "40", " ">>)}

CohortOutputs ==
    {[queries |-> q, cohortDescription |-> d] : q \in QueryLists, d \in Descriptions}

NoOutput == [queries |-> <<>>, cohortDescription |-> None]

Pat(id) == [resourceType |-> "Patient", id |-> Some(<<id>>), subject |-> None]
PatNoId == [resourceType |-> "Patient", id |-> None, subject |-> None]
PatEmptyId == [resourceType |-> "Patient", id |-> Some(<<>>), subject |-> None]
Cond(ref) ==
    [resourceType |-> "Condition", id |-> Some(<<"C1">>),
     subject |-> Some([reference |-> Some(ref)])]
CondNoSubject == [resourceType |-> "Condition", id |-> Some(<<"C1">>), subject |-> None]
CondNoReference ==
    [resourceType |-> "Condition", id |-> Some(<<"C1">>),
     subject |-> Some([reference |-> None])]
CondOf(id) == Cond(<<"Patient", "/", id>>)

\* A search result: the pages the iterator yields, and whether the fetch after
\* the last of them fails instead of ending the iteration.
Result(pages, fails) == [pages |-> pages, fails |-> fails]

RPatients123 == Result(<< <<Pat("P1"), Pat("P2")>>, <<Pat("P3")>> >>, FALSE)
RConditions234 == Result(<< <<CondOf("P2"), CondOf("P3"), CondOf("P4")>> >>, FALSE)
RCondition2 == Result(<< <<CondOf("P2")>> >>, FALSE)
RNoPage == Result(<<>>, FALSE)
RDuplicates ==
    Result(<< <<Pat("P1"), Pat("P1")>>, <<>>, <<Pat("P2"), Pat("P1")>> >>, FALSE)
RMalformed ==
    Result(<< <<PatNoId, CondNoSubject, Cond(<<"P2">>), Cond(<<>>)>>,
              <<PatEmptyId>>,
              <<CondNoReference, Cond(<<"Patient", "/">>), Cond(<<"/", "P1">>)>> >>,
           FALSE)
RMixed ==
    Result(<< <<PatNoId, Cond(<<"Patient", "/", "P3", "/", "_history", "/", "1">>)>>,
              <<Cond(<<"Group", "/", "P4">>), CondNoSubject, Pat("P3")>> >>,
           FALSE)
RFailsFirst == Result(<<>>, TRUE)
RFailsLater == Result(<< <<Pat("P1"), Pat("P2")>> >>, TRUE)

SearchResults ==
    {RPatients123, RConditions234, RCondition2, RNoPage, RDuplicates, RMalformed,
     RMixed, RFailsFirst, RFailsLater}

(***************************************************************************)
(* extractPatientIds and performSetOperation                               *)
(***************************************************************************)

\* Variant: every resource contributes its own id.
RawPatientIdOwnId(resource) == resource.id

\* resource.resourceType === "Patient" ? resource.id
\*                                     : resource.subject?.reference?.split("/")[1]
RawPatientId(resource) ==
    IF resource.resourceType = "Patient"
    THEN resource.id
    ELSE IF resource.subject = None
         THEN None
         ELSE IF resource.subject[1].reference = None
              THEN None
              ELSE LET parts == Split(resource.subject[1].reference[1], "/")
                   IN  IF Len(parts) >= 2 THEN Some(parts[2]) ELSE None

\* patientId || ""
OrEmpty(v) == IF v = None THEN <<>> ELSE v[1]

extractPatientIds(resources) ==
    LET mapped == [i \in 1..Len(resources) |->
                       [patientId |-> OrEmpty(RawPatientId(resources[i]))]]
        keep(data) == data.patientId # <<>>
    IN  SelectSeq(mapped, keep)

\* Variant: the two branches of the filter are swapped.
performSetOperationSwapped(exclude, setA, setB) ==
    LET keep(id) == IF exclude THEN id \in Range(setB) ELSE id \notin Range(setB)
    IN  SelectSeq(setA, keep)

performSetOperation(exclude, setA, setB) ==
    LET keep(id) == IF exclude THEN id \notin Range(setB) ELSE id \in Range(setB)
    IN  SelectSeq(setA, keep)

\* Variant: only an include query seeds.
FoldSeedsIncludeOnly(exclude, current, ids) ==
    IF Len(current) = 0 /\ ~exclude
    THEN ids
    ELSE performSetOperation(exclude, current, ids)

\* Variant: no seeding, the first result is folded into the empty array too.
FoldNoSeed(exclude, current, ids) == performSetOperation(exclude, current, ids)

\* createCohortGroup, lines 224-228: the first result seeds, the later ones fold.
FoldInto(exclude, current, ids) ==
    IF Len(current) = 0
    THEN ids
    ELSE performSetOperation(exclude, current, ids)

\* Variant: the rationale is recorded whenever it is defined, also when empty.
CriteriaExtensionDefinedRationale(query) ==
    LET extensionElements ==
            << [url |-> "query", valueString |-> query.searchParams],
               [url |-> "exclude", valueBoolean |-> query.exclude] >>
        withRationale ==
            IF query.rationale # None
            THEN Append(extensionElements,
                        [url |-> "rationale", valueString |-> query.rationale[1]])
            ELSE extensionElements
    IN  [url |-> "criteria", extension |-> withRationale]

\* createCohortGroup, lines 231-243.
CriteriaExtension(query) ==
    LET extensionElements ==
            << [url |-> "query", valueString |-> query.searchParams],
               [url |-> "exclude", valueBoolean |-> query.exclude] >>
        withRationale ==
            IF query.rationale # None /\ query.rationale # Some("")
            THEN Append(extensionElements,
                        [url |-> "rationale", valueString |-> query.rationale[1]])
            ELSE extensionElements
    IN  [url |-> "criteria", extension |-> withRationale]

\* Variant: unshift instead of push.
PushExtensionFirst(exts, query) == <<CriteriaExtension(query)>> \o exts

PushExtension(exts, query) == Append(exts, CriteriaExtension(query))

\* createCohortGroup, lines 247-273: the resource handed to createResource.
DefaultName == <<"Cohort", " ", "Group">>

DescriptionOr(description) ==
    IF description = None \/ description = Some(<<>>)
    THEN DefaultName
    ELSE description[1]

PatientReference(id) == <<"Patient", "/">> \o id

\* Variant: a group that has members is created active.
GroupResourceActive(output, current, exts) ==
    LET uniquePatientIds == ArrayFromSet(current)
        uniqueMembers ==
            [i \in 1..Len(uniquePatientIds) |->
                 [entity |-> [reference |-> PatientReference(uniquePatientIds[i])]]]
        identifierValue == ReplaceWhitespace(DescriptionOr(output.cohortDescription))
    IN  [resourceType |-> "Group",
         name |-> DescriptionOr(output.cohortDescription),
         active |-> uniqueMembers # <<>>,
         type |-> "person",
         actual |-> TRUE,
         extension |->
             << [url |-> "https://your-organization.com/fhir/StructureDefinition/cohort-query",
                 extension |-> exts] >>,
         identifier |-> << [value |-> identifierValue] >>,
         member |-> uniqueMembers]

GroupResource(output, current, exts) ==
    LET uniquePatientIds == ArrayFromSet(current)
        uniqueMembers ==
            [i \in 1..Len(uniquePatientIds) |->
                 [entity |-> [reference |-> PatientReference(uniquePatientIds[i])]]]
        identifierValue == ReplaceWhitespace(DescriptionOr(output.cohortDescription))
    IN  [resourceType |-> "Group",
         name |-> DescriptionOr(output.cohortDescription),
         active |-> FALSE,
         type |-> "person",
         actual |-> TRUE,
         extension |->
             << [url |-> "https://your-organization.com/fhir/StructureDefinition/cohort-query",
                 extension |-> exts] >>,
         identifier |-> << [value |-> identifierValue] >>,
         member |-> uniqueMembers]

(***************************************************************************)
(* The handler                                                             *)
(***************************************************************************)

Init ==
    /\ input \in Inputs
    /\ pc = "auth"
    /\ error = "none"
    /\ errorParts = <<>>
    /\ bearerToken = ""
    /\ cohortOutput = NoOutput
    /\ currentPatientIds = <<>>
    /\ extensions = <<>>
    /\ qi = 0
    /\ patientIds = <<>>
    /\ pageNo = 0
    /\ results = <<>>
    /\ store = <<>>
    /\ returned = None
    /\ calls = <<>>
    /\ previous = None
    /\ PageUnused

\* The handler rejects with an error whose message is a fixed text followed by
\* the interpolated values.
FailWith(message, parts) ==
    /\ pc' = "failed"
    /\ error' = message
    /\ errorParts' = parts

Fail(message) == FailWith(message, <<>>)

\* What an ok token response can hold in place of a token (line 196-197).
NoToken == {None, Some("")}

\* The token an ok token response issues.
IssuedToken == "token"

\* The request sent to /auth/token, with the token its response held.
TokenCall(outcome, token) == [op |-> "token", outcome |-> outcome, token |-> token]

\* submitCohortRequest, lines 182-199: POST /auth/token.
TokenRequest ==
    /\ pc = "auth"
    /\ \/ \E failure \in TransportFailures :
            /\ calls' = Append(calls, TokenCall(failure, None))
            /\ FailWith("Failed to connect to PhenoML API", <<failure.message>>)
            /\ UNCHANGED bearerToken
       \/ \E failure \in HttpFailures :
            /\ calls' = Append(calls, TokenCall(failure, None))
            /\ FailWith("Authentication failed", <<failure.status, failure.message>>)
            /\ UNCHANGED bearerToken
       \/ \E token \in NoToken :
            /\ calls' = Append(calls, TokenCall(HttpOk, token))
            /\ Fail("No token received from auth response")
            /\ UNCHANGED bearerToken
       \/ /\ calls' = Append(calls, TokenCall(HttpOk, Some(IssuedToken)))
          /\ pc' = "resolve"
          /\ bearerToken' = IssuedToken
          /\ UNCHANGED <<error, errorParts>>
    /\ UNCHANGED <<pageVars, input, previous, cohortOutput, currentPatientIds, extensions, qi, patientIds,
                   pageNo, results, store, returned>>

\* Variant: the resolver request is sent without the bearer token.
CohortCallNoBearer(outcome) ==
    [op |-> "cohort", bearer |-> "", body |-> input, outcome |-> outcome]

\* The request submitCohortRequest sends to /construe/cohort (lines 201-205).
CohortCall(outcome) ==
    [op |-> "cohort", bearer |-> bearerToken, body |-> input, outcome |-> outcome]

\* submitCohortRequest, lines 201-213: POST /construe/cohort; on success the
\* handler enters createCohortGroup (lines 218-219).
ResolverRequest ==
    /\ pc = "resolve"
    /\ \/ \E failure \in TransportFailures :
            /\ calls' = Append(calls, CohortCall(failure))
            /\ FailWith("fetch failed", <<failure.message>>)
            /\ UNCHANGED <<cohortOutput, currentPatientIds, extensions>>
       \/ \E failure \in HttpFailures :
            /\ calls' = Append(calls, CohortCall(failure))
            /\ FailWith("Failed to fetch cohort queries", <<failure.message>>)
            /\ UNCHANGED <<cohortOutput, currentPatientIds, extensions>>
       \/ /\ calls' = Append(calls, CohortCall(HttpOk))
          /\ \E output \in CohortOutputs : cohortOutput' = output
          /\ currentPatientIds' = <<>>
          /\ extensions' = <<>>
          /\ pc' = "loop"
          /\ UNCHANGED <<error, errorParts>>
    /\ UNCHANGED <<pageVars, input, previous, bearerToken, qi, patientIds, pageNo, results, store,
                   returned>>

Queries == cohortOutput.queries

\* The query the for loop of createCohortGroup is at.
Query == Queries[qi + 1]

\* The iterator of the search in progress.
Iter == results[Len(results)]

\* executeQuery, lines 280-283: the loop takes the next query and opens the
\* paginated search for it; the store decides what the search will yield, and
\* yields in a second run what it did in the first.
ExecuteQuery ==
    /\ pc = "loop"
    /\ qi < Len(Queries)
    /\ \E result \in SearchResults :
           /\ previous # None => result = previous[1].results[qi + 1]
           /\ results' = Append(results, result)
    /\ patientIds' = <<>>
    /\ pageNo' = 0
    /\ pc' = "paging"
    /\ calls' = Append(calls, [op |-> "search", resource |-> Query.resource,
                               searchParams |-> Query.searchParams])
    /\ UNCHANGED <<pageVars, input, previous, error, errorParts, bearerToken, cohortOutput, currentPatientIds, extensions, qi,
                   store, returned>>

\* executeQuery, lines 283-286: one page is fetched and its identifiers are pushed.
FetchPage ==
    /\ pc = "paging"
    /\ pageNo < Len(Iter.pages)
    /\ LET page == Iter.pages[pageNo + 1]
           extractedIds == extractPatientIds(page)
       IN  patientIds' = patientIds \o
                [i \in 1..Len(extractedIds) |-> extractedIds[i].patientId]
    /\ pageNo' = pageNo + 1
    /\ UNCHANGED <<pageVars, input, previous, pc, error, errorParts, bearerToken, cohortOutput, currentPatientIds, extensions,
                   qi, results, store, returned, calls>>

\* Variant: executeQuery catches the rejection and returns the identifiers
\* collected so far, so the loop goes on.
SearchFailsSwallowed ==
    /\ pc = "paging"
    /\ pageNo = Len(Iter.pages)
    /\ Iter.fails
    /\ error' = "search failed"
    /\ errorParts' = <<>>
    /\ currentPatientIds' = FoldInto(Query.exclude, currentPatientIds, patientIds)
    /\ extensions' = PushExtension(extensions, Query)
    /\ qi' = qi + 1
    /\ pc' = "loop"
    /\ UNCHANGED <<pageVars, input, previous, bearerToken, cohortOutput, patientIds, pageNo, results, store,
                   returned, calls>>

\* executeQuery, line 283: a page fetch rejects; nothing catches it up to the handler.
SearchFails ==
    /\ pc = "paging"
    /\ pageNo = Len(Iter.pages)
    /\ Iter.fails
    /\ Fail("search failed")
    /\ UNCHANGED <<pageVars, input, previous, bearerToken, cohortOutput, currentPatientIds, extensions, qi,
                   patientIds, pageNo, results, store, returned, calls>>

\* Variant: an exclude query is folded as soon as it has one page.
FoldQueryEarly ==
    /\ pc = "paging"
    /\ \/ pageNo = Len(Iter.pages) /\ ~Iter.fails
       \/ Query.exclude /\ pageNo >= 1
    /\ currentPatientIds' = FoldInto(Query.exclude, currentPatientIds, patientIds)
    /\ extensions' = PushExtension(extensions, Query)
    /\ qi' = qi + 1
    /\ pc' = "loop"
    /\ UNCHANGED <<pageVars, input, previous, error, errorParts, bearerToken, cohortOutput,
                   patientIds, pageNo, results, store, returned, calls>>

\* Variant: the fold sits inside the `if (query.rationale)` block.
FoldQueryInRationaleBlock ==
    /\ pc = "paging"
    /\ pageNo = Len(Iter.pages)
    /\ ~Iter.fails
    /\ currentPatientIds' =
           IF Query.rationale # None /\ Query.rationale # Some("")
           THEN FoldInto(Query.exclude, currentPatientIds, patientIds)
           ELSE currentPatientIds
    /\ extensions' = PushExtension(extensions, Query)
    /\ qi' = qi + 1
    /\ pc' = "loop"
    /\ UNCHANGED <<pageVars, input, previous, error, errorParts, bearerToken, cohortOutput,
                   patientIds, pageNo, results, store, returned, calls>>

\* executeQuery, line 287, and createCohortGroup, lines 222-243: the iteration
\* ends, the query's identifiers are folded and its extension is pushed.
FoldQuery ==
    /\ pc = "paging"
    /\ pageNo = Len(Iter.pages)
    /\ ~Iter.fails
    /\ currentPatientIds' = FoldInto(Query.exclude, currentPatientIds, patientIds)
    /\ extensions' = PushExtension(extensions, Query)
    /\ qi' = qi + 1
    /\ pc' = "loop"
    /\ UNCHANGED <<pageVars, input, previous, error, errorParts, bearerToken, cohortOutput, patientIds, pageNo, results,
                   store, returned, calls>>

\* Variant: a group with the same identifier is replaced, not created again.
CreateGroupUpsert ==
    /\ pc = "loop"
    /\ qi = Len(Queries)
    /\ calls' = Append(calls, [op |-> "create", resourceType |-> "Group"])
    /\ LET group == GroupResource(cohortOutput, currentPatientIds, extensions)
           same == {i \in 1..Len(store) : store[i].identifier = group.identifier}
       IN  \/ /\ store' = IF same = {}
                           THEN Append(store, group)
                           ELSE [i \in 1..Len(store) |->
                                     IF i \in same THEN group ELSE store[i]]
              /\ returned' = Some(group)
              /\ pc' = "done"
              /\ UNCHANGED <<error, errorParts>>
           \/ /\ Fail("create failed")
              /\ UNCHANGED <<store, returned>>
    /\ UNCHANGED <<pageVars, input, previous, bearerToken, cohortOutput, currentPatientIds,
                   extensions, qi, patientIds, pageNo, results>>

\* Variant: a failed create is tried a second time.
CreateGroupRetry ==
    /\ pc = "loop"
    /\ qi = Len(Queries)
    /\ LET group == GroupResource(cohortOutput, currentPatientIds, extensions)
           create == [op |-> "create", resourceType |-> "Group"]
       IN  \/ /\ calls' = Append(calls, create)
              /\ store' = Append(store, group)
              /\ returned' = Some(group)
              /\ pc' = "done"
              /\ UNCHANGED <<error, errorParts>>
           \/ /\ calls' = calls \o <<create, create>>
              /\ store' = Append(store, group)
              /\ returned' = Some(group)
              /\ pc' = "done"
              /\ UNCHANGED <<error, errorParts>>
           \/ /\ calls' = calls \o <<create, create>>
              /\ Fail("create failed")
              /\ UNCHANGED <<store, returned>>
    /\ UNCHANGED <<pageVars, input, previous, bearerToken, cohortOutput, currentPatientIds, extensions, qi,
                   patientIds, pageNo, results>>

\* Variant: a failed create is caught and the unsaved group is returned.
CreateGroupReturnsUnsaved ==
    /\ pc = "loop"
    /\ qi = Len(Queries)
    /\ calls' = Append(calls, [op |-> "create", resourceType |-> "Group"])
    /\ LET group == GroupResource(cohortOutput, currentPatientIds, extensions)
       IN  \/ /\ store' = Append(store, group)
              /\ returned' = Some(group)
              /\ pc' = "done"
              /\ UNCHANGED <<error, errorParts>>
           \/ /\ error' = "create failed"
              /\ errorParts' = <<>>
              /\ returned' = Some(group)
              /\ pc' = "done"
              /\ UNCHANGED store
    /\ UNCHANGED <<pageVars, input, previous, bearerToken, cohortOutput, currentPatientIds,
                   extensions, qi, patientIds, pageNo, results>>

\* createCohortGroup, lines 247-275: the group is built and created.
CreateGroup ==
    /\ pc = "loop"
    /\ qi = Len(Queries)
    /\ calls' = Append(calls, [op |-> "create", resourceType |-> "Group"])
    /\ LET group == GroupResource(cohortOutput, currentPatientIds, extensions)
       IN  \/ /\ store' = Append(store, group)
              /\ returned' = Some(group)
              /\ pc' = "done"
              /\ UNCHANGED <<error, errorParts>>
           \/ /\ Fail("create failed")
              /\ UNCHANGED <<store, returned>>
    /\ UNCHANGED <<pageVars, input, previous, bearerToken, cohortOutput, currentPatientIds, extensions, qi,
                   patientIds, pageNo, results>>

\* The rationales a query can carry.
Rationales == {None, Some(""), Some("another rationale")}

\* A specification with the rationale of every query replaced.
WithRationale(output, rationale) ==
    [output EXCEPT !.queries =
         [i \in 1..Len(output.queries) |->
              [output.queries[i] EXCEPT !.rationale = rationale]]]

\* A specification and those that differ from it in the rationales only.
SameButRationale(output) ==
    {output} \cup {WithRationale(output, rationale) : rationale \in Rationales}

\* createCohortGroup, lines 217-219, called a second time: with the same
\* specification or one that differs in the rationales only, against the record
\* store as the first run's searches found it.
Rerun ==
    /\ pc = "done"
    /\ previous = None
    /\ previous' = Some([cohortOutput |-> cohortOutput, results |-> results,
                         calls |-> calls])
    /\ \E output \in SameButRationale(cohortOutput) : cohortOutput' = output
    /\ currentPatientIds' = <<>>
    /\ extensions' = <<>>
    /\ qi' = 0
    /\ patientIds' = <<>>
    /\ pageNo' = 0
    /\ results' = <<>>
    /\ returned' = None
    /\ pc' = "loop"
    /\ UNCHANGED <<pageVars, input, error, errorParts, bearerToken, store, calls>>

Next ==
    \/ TokenRequest
    \/ ResolverRequest
    \/ ExecuteQuery
    \/ FetchPage
    \/ SearchFails
    \/ FoldQuery
    \/ CreateGroup

Spec == Init /\ [][Next]_vars

\* One invocation followed by a second run of createCohortGroup.
NextRerun ==
    \/ Next
    \/ Rerun

\* The second run does not depend on the text: it is submitted with a description.
InitRerun ==
    /\ Init
    /\ input = [text |-> Some("over 40 with hyperlipidemia")]

SpecRerun == InitRerun /\ [][NextRerun]_vars

(***************************************************************************)
(* Properties                                                              *)
(***************************************************************************)

Groups == Range(store)

\* The criteria entries of a group, in order.
CriteriaOf(group) == group.extension[1].extension

\* The subject references of a group's members, in order.
MembersOf(group) == [i \in 1..Len(group.member) |-> group.member[i].entity.reference]

\* The step that folds a query which is not the first of the list.
LaterFold == pc = "paging" /\ pc' = "loop" /\ qi >= 1

\* C1: folding a later query whose exclude flag is false leaves the RunningSet
\* equal to its value before the fold intersected with the query's identifiers,
\* whatever that value was, the empty set included.
IntersectFold ==
    [][(LaterFold /\ ~Query.exclude)
          => Range(currentPatientIds') = Range(currentPatientIds) \cap Range(patientIds)]_vars

\* C2: folding a later query whose exclude flag is true leaves the RunningSet
\* equal to its value before the fold minus the query's identifiers, whatever
\* that value was, the empty set included.
ExcludeFold ==
    [][(LaterFold /\ Query.exclude)
          => Range(currentPatientIds') = Range(currentPatientIds) \ Range(patientIds)]_vars

\* C3: the RunningSet is seeded by the first query only: once the first query
\* has been folded, a RunningSet that is empty stays empty for the rest of the
\* query list.
EmptyStaysEmpty ==
    [][(qi >= 1 /\ currentPatientIds = <<>>) => currentPatientIds' = <<>>]_vars

\* The identifiers of all pages of a search result, as extractPatientIds gives them.
IdsOfPage(page) == {extractPatientIds(page)[i].patientId : i \in 1..Len(extractPatientIds(page))}

IdsOfResult(result) == UNION {IdsOfPage(result.pages[k]) : k \in 1..Len(result.pages)}

\* C4: with exactly one query, whose exclude flag is false, the members of the
\* persisted group are exactly the identifiers extracted from all pages of that
\* query's search.
SeedSemantics ==
    (pc = "done" /\ Len(Queries) = 1 /\ ~Queries[1].exclude)
        => /\ Len(store) = 1
           /\ Range(MembersOf(store[1]))
                  = {PatientReference(id) : id \in IdsOfResult(results[1])}

SeedSemanticsWitness ==
    /\ pc = "done"
    /\ Len(Queries) = 1
    /\ ~Queries[1].exclude
    /\ Len(results[1].pages) >= 2
    /\ Cardinality(Range(MembersOf(store[1]))) >= 3

\* C5: no subject reference appears twice in the member list of a persisted
\* group, also when the searches returned an identifier several times.
NoDuplicateMembers ==
    \A group \in Groups :
        \A i, j \in 1..Len(group.member) :
            group.member[i] = group.member[j] => i = j

NoDuplicateMembersWitness ==
    /\ pc = "done"
    /\ Len(currentPatientIds) > Cardinality(Range(currentPatientIds))
    /\ Len(store[1].member) = Cardinality(Range(currentPatientIds))

\* What the claim says one entity contributes: no identifier or one.  The second
\* segment of a reference is what lies between its first "/" and its next "/"
\* (or its end).
SecondSegment(ref) ==
    LET slashes == {k \in 1..Len(ref) : ref[k] = "/"}
    IN  IF slashes = {}
        THEN None
        ELSE LET first == CHOOSE k \in slashes : \A m \in slashes : k <= m
                 after == {k \in slashes : k > first}
                 stop == IF after = {}
                         THEN Len(ref) + 1
                         ELSE CHOOSE k \in after : \A m \in after : k <= m
             IN  Some(SubSeq(ref, first + 1, stop - 1))

Contribution(entity) ==
    LET candidate ==
            IF entity.resourceType = "Patient"
            THEN entity.id
            ELSE IF entity.subject = None \/ entity.subject[1].reference = None
                 THEN None
                 ELSE SecondSegment(entity.subject[1].reference[1])
    IN  IF candidate = None \/ candidate = Some(<<>>) THEN <<>> ELSE candidate

RECURSIVE ContributionsOfPage(_)
ContributionsOfPage(page) ==
    IF page = <<>>
    THEN <<>>
    ELSE Contribution(Head(page)) \o ContributionsOfPage(Tail(page))

RECURSIVE ContributionsOfPages(_)
ContributionsOfPages(pages) ==
    IF pages = <<>>
    THEN <<>>
    ELSE ContributionsOfPage(Head(pages)) \o ContributionsOfPages(Tail(pages))

\* C6: the identifiers collected from the pages consumed so far are, entity by
\* entity, a Patient's own id and any other entity's second segment of
\* subject.reference; an entity for which that is missing or empty contributes
\* nothing and does not stop the search.
IdentifierExtraction ==
    pc = "paging"
        => /\ patientIds = ContributionsOfPages(SubSeq(Iter.pages, 1, pageNo))
           /\ error = "none"

IdentifierExtractionWitness ==
    /\ pc = "paging"
    /\ Iter = RMixed
    /\ pageNo = 2
    /\ patientIds = << <<"P3">>, <<"P4">>, <<"P3">> >>

\* C7: a persisted group has exactly one criteria entry per query of the
\* specification, in the order of the queries, whatever each query returned
\* and whatever its fold did.
TraceabilityComplete ==
    \A group \in Groups :
        /\ Len(CriteriaOf(group)) = Len(Queries)
        /\ \A i \in 1..Len(Queries) :
               /\ CriteriaOf(group)[i].url = "criteria"
               /\ CriteriaOf(group)[i].extension[1].valueString = Queries[i].searchParams
               /\ CriteriaOf(group)[i].extension[2].valueBoolean = Queries[i].exclude

TraceabilityCompleteWitness ==
    /\ pc = "done"
    /\ Queries = <<QPatientInclude, QConditionExclude>>
    /\ results = <<RPatients123, RNoPage>>
    /\ Len(CriteriaOf(store[1])) = 2

\* C8: a group with no member and no criteria entry is never persisted: a
\* specification without queries is rejected or reported, not materialized.
EmptySpecificationFlagged ==
    \A group \in Groups : group.member # <<>> \/ CriteriaOf(group) # <<>>

\* C9: when a page fetch fails the handler rejects with the search failure, the
\* failed search is the last one started, no create call is sent and the record
\* store holds no group; nothing runs afterwards.
SearchFailureAborts ==
    error = "search failed"
        => /\ pc = "failed"
           /\ Len(results) = qi + 1
           /\ store = <<>>
           /\ returned = None
           /\ \A i \in 1..Len(calls) : calls[i].op # "create"
           /\ ~ENABLED Next

SearchFailureAbortsWitness ==
    /\ error = "search failed"
    /\ Len(Queries) = 2
    /\ qi = 1
    /\ pageNo = 1
    /\ currentPatientIds # <<>>

\* C10: queries [Patient include, Condition include], the Patient search
\* returning P1, P2, P3 and the Condition search returning entities whose
\* subjects are P2, P3, P4: the persisted group has exactly the members P2 and
\* P3 and exactly two criteria entries.
EndToEndScenario ==
    (/\ pc = "done"
     /\ Queries = <<QPatientInclude, QConditionInclude>>
     /\ results = <<RPatients123, RConditions234>>)
        => /\ Len(store) = 1
           /\ Len(store[1].member) = 2
           /\ Range(MembersOf(store[1]))
                  = {<<"Patient", "/", "P2">>, <<"Patient", "/", "P3">>}
           /\ Len(CriteriaOf(store[1])) = 2

EndToEndScenarioWitness ==
    /\ pc = "done"
    /\ Queries = <<QPatientInclude, QConditionInclude>>
    /\ results = <<RPatients123, RConditions234>>
    /\ returned = Some(store[1])

\* C11: include {P1,P2,P3} then exclude {P2} gives {P1,P3}, and a specification
\* whose first query has exclude = true is rejected: no group is materialized
\* from it.
OrderSensitivity ==
    /\ (/\ pc = "done"
        /\ Queries = <<QPatientInclude, QConditionExclude>>
        /\ results = <<RPatients123, RCondition2>>)
           => Range(MembersOf(store[1]))
                  = {<<"Patient", "/", "P1">>, <<"Patient", "/", "P3">>}
    /\ (Len(Queries) >= 1 /\ Queries[1].exclude) => store = <<>>

\* The number of requests of one kind sent so far.
CountCalls(op) == Cardinality({i \in 1..Len(calls) : calls[i].op = op})

\* C12: an invocation sends at most one create call, exactly one when it
\* succeeds; the call creates the Group, which is then the only resource
\* written; there is no update and no delete.
SingleWrite ==
    /\ CountCalls("create") <= 1
    /\ Len(store) <= CountCalls("create")
    /\ pc = "done"
           => /\ CountCalls("create") = 1
              /\ Len(store) = 1
              /\ store[1].resourceType = "Group"
              /\ returned = Some(store[1])
    /\ \A i \in 1..Len(calls) :
           /\ calls[i].op \in {"token", "cohort", "search", "create"}
           /\ calls[i].op = "create" => calls[i].resourceType = "Group"

SingleWriteWitness ==
    /\ pc = "done"
    /\ Len(Queries) = 2
    /\ CountCalls("search") = 2
    /\ CountCalls("create") = 1

\* C13: a request whose text is missing or empty is rejected before any
\* network call: no token request, no resolver request, no search, no create.
MalformedInputRejected ==
    (input.text = None \/ input.text = Some("")) => calls = <<>>

\* The requests to the PhenoML API that did not end with an ok response.
FailedResolution ==
    {i \in 1..Len(calls) :
         calls[i].op \in {"token", "cohort"} /\ calls[i].outcome.kind # "ok"}

\* C14: when the token or the resolver request fails in transport or is
\* answered with a non-success response, the invocation fails with an error
\* carrying the upstream status and message, and the failed request is the
\* last request sent: no search, no create, no retry.
ResolutionFailure ==
    \A i \in FailedResolution :
        /\ pc = "failed"
        /\ i = Len(calls)
        /\ store = <<>>
        /\ calls[i].outcome.message \in Range(errorParts)
        /\ calls[i].outcome.kind = "http" => calls[i].outcome.status \in Range(errorParts)

IsSearch(call) == call.op = "search"

\* The searches of the first run and those of the second, in order.
FirstRunSearches == SelectSeq(previous[1].calls, IsSearch)

SecondRunSearches ==
    SelectSeq(SubSeq(calls, Len(previous[1].calls) + 1, Len(calls)), IsSearch)

SecondRunDone == previous # None /\ pc = "done"

\* C15: the same specification run a second time against the record store as
\* the first run found it gives the same member set, and the second run creates
\* a second group: two create calls, two groups, no upsert.
RerunSameSpecification ==
    (SecondRunDone /\ cohortOutput = previous[1].cohortOutput)
        => /\ Len(store) = 2
           /\ CountCalls("create") = 2
           /\ Range(MembersOf(store[2])) = Range(MembersOf(store[1]))

RerunSameSpecificationWitness ==
    /\ SecondRunDone
    /\ cohortOutput = previous[1].cohortOutput
    /\ Len(Queries) = 2
    /\ Len(store) = 2
    /\ store[2].member # <<>>

\* C16: a specification that differs from the first run's in the rationales
\* only, run against the same record store, gives the same members and sends
\* the same searches in the same order; the groups differ in nothing but their
\* criteria entries.
RationaleAuditOnly ==
    SecondRunDone
        => /\ MembersOf(store[2]) = MembersOf(store[1])
           /\ SecondRunSearches = FirstRunSearches
           /\ [store[2] EXCEPT !.extension = store[1].extension] = store[1]

RationaleAuditOnlyWitness ==
    /\ SecondRunDone
    /\ cohortOutput # previous[1].cohortOutput
    /\ Len(Queries) = 2
    /\ CriteriaOf(store[2]) # CriteriaOf(store[1])
    /\ store[2].member # <<>>

\* C17: every group is created with active = false, whatever the specification
\* and the final member set.
CreatedInactive == \A group \in Groups : group.active = FALSE

CreatedInactiveWitness ==
    /\ pc = "done"
    /\ Len(Queries) >= 1
    /\ store[1].member # <<>>
    /\ store[1].active = FALSE

\* A text with every run of whitespace replaced by one hyphen: the tokens that
\* are no whitespace or that begin a run of whitespace, the latter as "-".
Hyphenated(text) ==
    LET kept(i) == ~IsSpace(text[i]) \/ i = 1 \/ ~IsSpace(text[i - 1])
        positions == SelectSeq([i \in 1..Len(text) |-> i], kept)
    IN  [k \in 1..Len(positions) |->
             IF IsSpace(text[positions[k]]) THEN "-" ELSE text[positions[k]]]

\* C18: the group's name is the cohortDescription and its identifier is the
\* cohortDescription with every run of whitespace replaced by one hyphen, so it
\* holds no whitespace; without a description (absent or empty) they are
\* 'Cohort Group' and 'Cohort-Group'.
NameAndIdentifier ==
    \A group \in Groups :
        LET description == cohortOutput.cohortDescription
            absent == description = None \/ description = Some(<<>>)
            value == group.identifier[1].value
        IN  /\ Len(group.identifier) = 1
            /\ group.name = IF absent THEN <<"Cohort", " ", "Group">> ELSE description[1]
            /\ value = IF absent
                       THEN <<"Cohort", "-", "Group">>
                       ELSE Hyphenated(description[1])
            /\ \A i \in 1..Len(value) : ~IsSpace(value[i])

NameAndIdentifierWitness ==
    /\ pc = "done"
    /\ cohortOutput.cohortDescription = Some(<<"over", " ", "\t", "40", " ">>)
    /\ store[1].name = <<"over", " ", "\t", "40", " ">>
    /\ store[1].identifier[1].value = <<"over", "-", "40", "-">>

\* The searches sent so far, in order.
Searches == SelectSeq(calls, IsSearch)

\* In every state: the searches sent are those of the first queries of the
\* list, in list order, at most one of them not yet folded; a create call has
\* been sent only with every query folded.
SequentialState ==
    /\ Len(Searches) = Len(results)
    /\ Len(results) \in {qi, qi + 1}
    /\ Len(results) <= Len(Queries)
    /\ \A k \in 1..Len(Searches) :
           /\ Searches[k].resource = Queries[k].resource
           /\ Searches[k].searchParams = Queries[k].searchParams
    /\ pc = "paging" => Len(results) = qi + 1 /\ pageNo <= Len(Iter.pages)
    /\ pc \in {"loop", "done"} => Len(results) = qi
    /\ CountCalls("create") > 0 => qi = Len(Queries) /\ Len(results) = Len(Queries)

\* In every step: a search is opened only when the query before it has been
\* folded; pages are consumed one after the other; a query is folded only when
\* every page of its search has been consumed, whatever its exclude flag; the
\* create call is sent only after the last fold.
SequentialStep ==
    /\ Len(results') # Len(results)
           => /\ Len(results') = Len(results) + 1
              /\ pc = "loop"
              /\ Len(results) = qi
              /\ pageNo' = 0
    /\ pageNo' # pageNo /\ Len(results') = Len(results)
           => pageNo' = pageNo + 1 /\ pageNo' <= Len(Iter.pages)
    /\ qi' # qi
           => /\ qi' = qi + 1
              /\ pc = "paging"
              /\ pageNo = Len(Iter.pages)
    /\ CountCalls("create")' # CountCalls("create")
           => pc = "loop" /\ qi = Len(Queries)

\* C19: queries are searched strictly in list order, one at a time, page after
\* page; every page of a query is consumed before the query is folded, for
\* include and exclude queries alike; the create call comes after the last fold.
SequentialExecution == []SequentialState /\ [][SequentialStep]_vars

SequentialExecutionWitness ==
    /\ pc = "done"
    /\ Len(Queries) = 2
    /\ Queries[2].exclude
    /\ Len(results[1].pages) >= 2
    /\ Len(results[2].pages) >= 2
    /\ Len(Searches) = 2

RunningSetUnique ==
    qi >= 1
        => \A i, j \in 1..Len(currentPatientIds) :
               currentPatientIds[i] = currentPatientIds[j] => i = j

\* C22: when the create call fails the handler rejects with that failure, the
\* create call is the last request and the only create, the record store holds
\* no group, nothing is returned to the caller and nothing runs afterwards.
PersistenceFailure ==
    error = "create failed"
        => /\ pc = "failed"
           /\ CountCalls("create") = 1
           /\ calls[Len(calls)].op = "create"
           /\ store = <<>>
           /\ returned = None
           /\ ~ENABLED Next

PersistenceFailureWitness ==
    /\ error = "create failed"
    /\ pc = "failed"
    /\ Len(Queries) = 2
    /\ Cardinality(Range(currentPatientIds)) >= 2

\* C23: an invocation sends exactly one token request, as its first request;
\* the resolver request is sent once at most, right after a token request that
\* was answered ok with a non-empty token, and carries that token as bearer;
\* when the token response is not ok or holds no token, no resolver request is
\* sent and the invocation fails.
TokenProtocol ==
    /\ CountCalls("token") <= 1
    /\ CountCalls("cohort") <= 1
    /\ pc # "auth" => CountCalls("token") = 1 /\ calls[1].op = "token"
    /\ \A i \in 1..Len(calls) :
           calls[i].op = "cohort"
               => /\ i = 2
                  /\ calls[1].op = "token"
                  /\ calls[1].outcome.kind = "ok"
                  /\ calls[1].token \notin NoToken
                  /\ calls[i].bearer = calls[1].token[1]
    /\ (calls # <<>> /\ (calls[1].outcome.kind # "ok" \/ calls[1].token \in NoToken))
           => CountCalls("cohort") = 0 /\ pc = "failed"

TokenProtocolWitness ==
    /\ CountCalls("token") = 1
    /\ CountCalls("cohort") = 1
    /\ calls[2].bearer = IssuedToken
    /\ pc = "done"

\* C24: the criteria entry at each position of a persisted group holds the
\* searchParams and the exclude flag of the query at that position, followed by
\* a rationale element with that query's rationale if and only if the query has
\* a non-empty rationale.
TraceabilityContent ==
    \A group \in Groups :
        \A i \in 1..Len(CriteriaOf(group)) :
            /\ i <= Len(Queries)
            /\ LET elements == CriteriaOf(group)[i].extension
                   rationale == Queries[i].rationale
                   nonEmpty == rationale # None /\ rationale # Some("")
               IN  /\ elements[1] = [url |-> "query", valueString |-> Queries[i].searchParams]
                   /\ elements[2] = [url |-> "exclude", valueBoolean |-> Queries[i].exclude]
                   /\ Len(elements) = IF nonEmpty THEN 3 ELSE 2
                   /\ nonEmpty =>
                          elements[3] = [url |-> "rationale", valueString |-> rationale[1]]

TraceabilityContentWitness ==
    /\ pc = "done"
    /\ Queries = <<QConditionInclude, QConditionExclude>>
    /\ Len(CriteriaOf(store[1])[1].extension) = 3
    /\ Len(CriteriaOf(store[1])[2].extension) = 2

(***************************************************************************)
(* createCohortGroup on a specification the resolver's answer was cast to  *)
(* without validation (line 213)                                           *)
(***************************************************************************)

\* The record categories the model's record store knows (ResourceType).
ResourceTypes == {"Patient", "Condition"}

\* A query whose resource is no record category.
QUnrecognized ==
    [resource |-> "Pateint", searchParams |-> "age=gt40",
     exclude |-> FALSE, rationale |-> None]

UncheckedQueryLists ==
    UNION {[1..n -> {QPatientInclude, QUnrecognized}] : n \in 0..MaxQueries}

\* The state in which createCohortGroup is entered (lines 171-173, 217-219),
\* the token and the resolver request having been answered ok.
InitCreate ==
    /\ input = [text |-> Some("over 40 with hyperlipidemia")]
    /\ pc = "loop"
    /\ error = "none"
    /\ errorParts = <<>>
    /\ bearerToken = IssuedToken
    /\ cohortOutput \in
           {[queries |-> q, cohortDescription |-> None] : q \in UncheckedQueryLists}
    /\ currentPatientIds = <<>>
    /\ extensions = <<>>
    /\ qi = 0
    /\ patientIds = <<>>
    /\ pageNo = 0
    /\ results = <<>>
    /\ store = <<>>
    /\ returned = None
    /\ calls = <<TokenCall(HttpOk, Some(IssuedToken)), CohortCall(HttpOk)>>
    /\ previous = None
    /\ PageUnused

NextCreate ==
    \/ ExecuteQuery
    \/ FetchPage
    \/ SearchFails
    \/ FoldQuery
    \/ CreateGroup

SpecCreate == InitCreate /\ [][NextCreate]_vars

\* C25: a specification with a query whose resource is not a recognized record
\* category is rejected before any search or create call is sent to the record
\* store.
UnrecognizedTypeRejected ==
    (\E i \in 1..Len(Queries) : Queries[i].resource \notin ResourceTypes)
        => CountCalls("search") = 0 /\ CountCalls("create") = 0

\* The subject references of the identifiers extracted for the k-th query.
ReferencesOfQuery(k) == {PatientReference(id) : id \in IdsOfResult(results[k])}

\* C26: with at least one query, every member of the persisted group is among
\* the identifiers extracted for the first query and among those extracted for
\* every later query whose exclude flag is false.
MembersWithinIncludes ==
    (pc = "done" /\ Len(Queries) >= 1)
        => \A k \in 1..Len(Queries) :
               (k = 1 \/ ~Queries[k].exclude)
                   => Range(MembersOf(store[1])) \subseteq ReferencesOfQuery(k)

\* C27: no identifier extracted for a query that is not the first and has
\* exclude = true is a member of the persisted group.
ExcludedNeverMembers ==
    pc = "done"
        => \A k \in 2..Len(Queries) :
               Queries[k].exclude
                   => Range(MembersOf(store[1])) \cap ReferencesOfQuery(k) = {}

(***************************************************************************)
(* CreateCohortPage.handleSubmit (src/src/pages/resource/                  *)
(* CreateCohortPage.tsx, lines 18-59) around one execution of the bot.     *)
(* The page's position is kept in pc: "page" when the button is clicked,   *)
(* "navigated" after line 47, "pageError" after the catch block.           *)
(***************************************************************************)

\* The button is enabled only with a text that is not blank (line 75).
InitPage ==
    /\ input = [text |-> Some("over 40 with hyperlipidemia")]
    /\ pc = "page"
    /\ error = "none"
    /\ errorParts = <<>>
    /\ bearerToken = ""
    /\ cohortOutput = NoOutput
    /\ currentPatientIds = <<>>
    /\ extensions = <<>>
    /\ qi = 0
    /\ patientIds = <<>>
    /\ pageNo = 0
    /\ results = <<>>
    /\ store = <<>>
    /\ returned = None
    /\ calls = <<>>
    /\ previous = None
    /\ PageUnused

\* handleSubmit, lines 25-37: the bot is looked up and, when found, executed
\* with the text.
FindBot ==
    /\ pc = "page"
    /\ \/ pc' = "auth" /\ UNCHANGED <<error, errorParts>>
       \/ /\ pc' = "pageError"
          /\ error' = "Bot not found or invalid"
          /\ errorParts' = <<>>
    /\ UNCHANGED <<pageVars, input, previous, bearerToken, cohortOutput, currentPatientIds, extensions,
                   qi, patientIds, pageNo, results, store, returned, calls>>

\* handleSubmit, lines 39-47: the resource the bot returned is handed to
\* createResource; the record store creates what it is given.
HandleBotResult ==
    /\ pc = "done"
    /\ calls' = Append(calls, [op |-> "create", resourceType |-> returned[1].resourceType])
    /\ \/ /\ store' = Append(store, returned[1])
          /\ pc' = "navigated"
          /\ UNCHANGED <<error, errorParts>>
       \/ /\ pc' = "pageError"
          /\ error' = "create failed"
          /\ errorParts' = <<>>
          /\ UNCHANGED store
    /\ UNCHANGED <<pageVars, input, previous, bearerToken, cohortOutput, currentPatientIds, extensions,
                   qi, patientIds, pageNo, results, returned>>

\* handleSubmit, lines 48-55: the bot's rejection is caught and shown.
HandleBotError ==
    /\ pc = "failed"
    /\ pc' = "pageError"
    /\ UNCHANGED <<pageVars, input, previous, error, errorParts, bearerToken, cohortOutput,
                   currentPatientIds, extensions, qi, patientIds, pageNo, results, store,
                   returned, calls>>

NextPage ==
    \/ FindBot
    \/ Next
    \/ HandleBotResult
    \/ HandleBotError

SpecPage == InitPage /\ [][NextPage]_vars

\* C28: one successful submit on the create-cohort page leaves exactly one new
\* Group in the record store.
OneGroupPerSubmission == pc = "navigated" => Len(store) = 1

(***************************************************************************)
(* The lang2fhir-create bot (src/unnamed/part_001, lines 32-155).  Its     *)
(* handler's input, position, error, bearerToken, requests and return      *)
(* value are kept in input, pc, error, errorParts, bearerToken, calls and  *)
(* returned; the other variables stay as they start.                       *)
(***************************************************************************)

\* Line 70: the resource types the bot accepts.
SupportedResourceTypes ==
    {"Questionnaire", "QuestionnaireResponse", "Observation", "Procedure", "Condition",
     "MedicationRequest", "CarePlan", "PlanDefinition"}

\* Line 46.
PATIENT_INDEPENDENT_RESOURCES == {"PlanDefinition", "Questionnaire"}

\* Line 147: the resource types addPatientReference accepts.
PatientReferenceTypes ==
    {"QuestionnaireResponse", "Observation", "Procedure", "Condition",
     "MedicationRequest", "CarePlan"}

\* CreateBotInput.patient: the id, and name[0].text when the patient has one.
Patients ==
    {[id |-> <<"P1">>, text |-> None], [id |-> <<"P2">>, text |-> Some(<<"Ann Lee">>)]}

\* CreateBotInput, as the caller may send it: each field present or not, the
\* resource type within the supported list or not.
CreateInputs ==
    {[text |-> t, resourceType |-> r, patient |-> p] :
         t \in {None, Some(""), Some("avoid heavy lifting")},
         r \in {None, Some("")} \cup {Some(type) : type \in SupportedResourceTypes}
                 \cup {Some("Patient"), Some("careplan")},
         p \in {None} \cup {Some(patient) : patient \in Patients}}

\* Lines 74-87: inputResourceType.toLowerCase() and the profile it is sent as.
ToLowerCase(type) ==
    CASE type = "Questionnaire" -> "questionnaire"
      [] type = "QuestionnaireResponse" -> "questionnaireresponse"
      [] type = "Observation" -> "observation"
      [] type = "Procedure" -> "procedure"
      [] type = "Condition" -> "condition"
      [] type = "MedicationRequest" -> "medicationrequest"
      [] type = "CarePlan" -> "careplan"
      [] type = "PlanDefinition" -> "plandefinition"
      [] type = "Patient" -> "patient"
      [] OTHER -> type

TargetResourceProfile(type) ==
    CASE ToLowerCase(type) = "observation" -> "simple-observation"
      [] ToLowerCase(type) = "condition" -> "condition-encounter-diagnosis"
      [] OTHER -> ToLowerCase(type)

\* !x for an optional string: undefined and "" are falsy.
Falsy(v) == v = None \/ v = Some("")

\* Line 64.
RequiresPatient(in) ==
    in.resourceType[1] \notin PATIENT_INDEPENDENT_RESOURCES

\* Lines 141-143: whatever is thrown in the try block is rethrown wrapped.
BotExecutionFailed(message, parts) ==
    FailWith("Bot execution failed", <<message>> \o parts)

InitLang2Fhir ==
    /\ input \in CreateInputs
    /\ pc = "validate"
    /\ error = "none"
    /\ errorParts = <<>>
    /\ bearerToken = ""
    /\ cohortOutput = NoOutput
    /\ currentPatientIds = <<>>
    /\ extensions = <<>>
    /\ qi = 0
    /\ patientIds = <<>>
    /\ pageNo = 0
    /\ results = <<>>
    /\ store = <<>>
    /\ returned = None
    /\ calls = <<>>
    /\ previous = None
    /\ PageUnused

\* Variant: the patient is not asked for before the requests are sent.
Lang2FhirValidateNoPatientCheck ==
    /\ pc = "validate"
    /\ IF Falsy(input.text)
       THEN BotExecutionFailed("No text input provided to bot", <<>>)
       ELSE IF Falsy(input.resourceType)
       THEN BotExecutionFailed("No target resource type provided", <<>>)
       ELSE IF input.resourceType[1] \notin SupportedResourceTypes
       THEN BotExecutionFailed("Unsupported resource type", <<input.resourceType[1]>>)
       ELSE pc' = "token" /\ UNCHANGED <<error, errorParts>>
    /\ UNCHANGED <<pageVars, input, previous, bearerToken, cohortOutput, currentPatientIds, extensions,
                   qi, patientIds, pageNo, results, store, returned, calls>>

\* handler, lines 54-72: the input is validated.
Lang2FhirValidate ==
    /\ pc = "validate"
    /\ IF Falsy(input.text)
       THEN BotExecutionFailed("No text input provided to bot", <<>>)
       ELSE IF Falsy(input.resourceType)
       THEN BotExecutionFailed("No target resource type provided", <<>>)
       ELSE IF RequiresPatient(input) /\ input.patient = None
       THEN BotExecutionFailed("Patient context is required for resource type",
                               <<input.resourceType[1]>>)
       ELSE IF input.resourceType[1] \notin SupportedResourceTypes
       THEN BotExecutionFailed("Unsupported resource type", <<input.resourceType[1]>>)
       ELSE pc' = "token" /\ UNCHANGED <<error, errorParts>>
    /\ UNCHANGED <<pageVars, input, previous, bearerToken, cohortOutput, currentPatientIds, extensions,
                   qi, patientIds, pageNo, results, store, returned, calls>>

\* handler, lines 89-111: POST /auth/token.
Lang2FhirTokenRequest ==
    /\ pc = "token"
    /\ \/ \E failure \in TransportFailures :
            /\ calls' = Append(calls, TokenCall(failure, None))
            /\ BotExecutionFailed("Failed to connect to PhenoML API", <<failure.message>>)
            /\ UNCHANGED bearerToken
       \/ \E failure \in HttpFailures :
            /\ calls' = Append(calls, TokenCall(failure, None))
            /\ BotExecutionFailed("Authentication failed",
                                  <<failure.status, failure.message>>)
            /\ UNCHANGED bearerToken
       \/ \E token \in NoToken :
            /\ calls' = Append(calls, TokenCall(HttpOk, token))
            /\ BotExecutionFailed("No token received from auth response", <<>>)
            /\ UNCHANGED bearerToken
       \/ /\ calls' = Append(calls, TokenCall(HttpOk, Some(IssuedToken)))
          /\ pc' = "create"
          /\ bearerToken' = IssuedToken
          /\ UNCHANGED <<error, errorParts>>
    /\ UNCHANGED <<pageVars, input, previous, cohortOutput, currentPatientIds, extensions, qi, patientIds,
                   pageNo, results, store, returned>>

\* The request the handler sends to /lang2fhir/create (lines 113-127).
Lang2FhirCall(outcome) ==
    [op |-> "lang2fhir", bearer |-> bearerToken,
     body |-> [version |-> "R4",
               resource |-> TargetResourceProfile(input.resourceType[1]),
               text |-> input.text[1]],
     outcome |-> outcome]

\* What the API may answer with: a resource of the type asked for, or of another.
GeneratedResources(type) ==
    {[resourceType |-> t, subject |-> None] : t \in {type, "Patient"}}

\* addPatientReference, lines 151-154.
WithPatientReference(resource, patient) ==
    [resource EXCEPT !.subject =
         Some([reference |-> <<"Patient", "/">> \o patient.id,
               display |-> IF patient.text = None \/ patient.text = Some(<<>>)
                           THEN <<"Patient", "/">> \o patient.id
                           ELSE patient.text[1]])]

\* handler, lines 113-140: POST /lang2fhir/create, then the patient reference
\* is added to the generated resource and the resource is returned.
Lang2FhirCreateRequest ==
    /\ pc = "create"
    /\ \/ \E failure \in TransportFailures :
            /\ calls' = Append(calls, Lang2FhirCall(failure))
            /\ BotExecutionFailed(failure.message, <<>>)
            /\ UNCHANGED returned
       \/ \E failure \in HttpFailures :
            /\ calls' = Append(calls, Lang2FhirCall(failure))
            /\ BotExecutionFailed("Create failed", <<failure.status, failure.message>>)
            /\ UNCHANGED returned
       \/ \E generatedResource \in GeneratedResources(input.resourceType[1]) :
            /\ calls' = Append(calls, Lang2FhirCall(HttpOk))
            /\ IF RequiresPatient(input) /\ input.patient # None
               THEN IF generatedResource.resourceType \notin PatientReferenceTypes
                    THEN /\ BotExecutionFailed(
                                "Unsupported resource type for patient reference",
                                <<generatedResource.resourceType>>)
                         /\ UNCHANGED returned
                    ELSE /\ returned' =
                                Some(WithPatientReference(generatedResource, input.patient[1]))
                         /\ pc' = "done"
                         /\ UNCHANGED <<error, errorParts>>
               ELSE /\ returned' = Some(generatedResource)
                    /\ pc' = "done"
                    /\ UNCHANGED <<error, errorParts>>
    /\ UNCHANGED <<pageVars, input, previous, bearerToken, cohortOutput, currentPatientIds, extensions,
                   qi, patientIds, pageNo, results, store>>

NextLang2Fhir ==
    \/ Lang2FhirValidate
    \/ Lang2FhirTokenRequest
    \/ Lang2FhirCreateRequest

SpecLang2Fhir == InitLang2Fhir /\ [][NextLang2Fhir]_vars

\* What the claim calls an invalid request.
InvalidCreateInput ==
    \/ input.text \in {None, Some("")}
    \/ input.resourceType \in {None, Some("")}
    \/ input.resourceType[1] \notin
           {"Questionnaire", "QuestionnaireResponse", "Observation", "Procedure",
            "Condition", "MedicationRequest", "CarePlan", "PlanDefinition"}
    \/ /\ input.resourceType[1] \notin {"PlanDefinition", "Questionnaire"}
       /\ input.patient = None

\* C29: a request to the lang2fhir-create bot with no text, no resource type, a
\* resource type outside the supported list, or a patient-dependent resource
\* type without a patient fails with a 'Bot execution failed' error, and no
\* request is ever sent for it: no token request, no create request.
CreateInputValidation ==
    InvalidCreateInput
        => /\ calls = <<>>
           /\ pc \in {"validate", "failed"}
           /\ pc = "failed" => error = "Bot execution failed"
           /\ pc = "validate" => ENABLED Lang2FhirValidate

CreateInputValidationWitness ==
    /\ pc = "failed"
    /\ error = "Bot execution failed"
    /\ input.text = Some("avoid heavy lifting")
    /\ input.resourceType = Some("CarePlan")
    /\ input.patient = None
    /\ calls = <<>>

(***************************************************************************)
(* ResourceLang2FHIRCreatePage (src/src/pages/resource/                    *)
(* ResourceLang2FHIRCreatePage.tsx, lines 75-234): recording, transcription*)
(* and submit.  The speech model has been loaded (lines 54-72), so         *)
(* isModelLoading is false and whisperRef is set.  The text is a sequence  *)
(* of pieces: what the user typed, a separating space, or the transcript   *)
(* of one recording.  A MediaRecorder is "recording" from start(),         *)
(* "stopping" from stop() until its stop event is delivered,               *)
(* "transcribing" while transcribeAudio runs for it, then "finished".      *)
(***************************************************************************)

Typed == [kind |-> "typed", of |-> 0]
Space == [kind |-> "space", of |-> 0]
Transcript(n) == [kind |-> "transcript", of |-> n]

\* inputText.trim(): empty when the text holds nothing but spaces.
TrimmedEmpty(text) == \A i \in 1..Len(text) : text[i] = Space

\* mediaRecorderRef.current: the recorder created last, 0 when there is none.
MediaRecorderRef == Cardinality({n \in 1..MaxRecordings : recorders[n] # "none"})

InitRecording ==
    /\ input = [text |-> None]
    /\ pc = "auth"
    /\ error = "none"
    /\ errorParts = <<>>
    /\ bearerToken = ""
    /\ cohortOutput = NoOutput
    /\ currentPatientIds = <<>>
    /\ extensions = <<>>
    /\ qi = 0
    /\ patientIds = <<>>
    /\ pageNo = 0
    /\ results = <<>>
    /\ store = <<>>
    /\ returned = None
    /\ calls = <<>>
    /\ previous = None
    /\ PageUnused

\* Textarea onChange, line 209: the user types a note into the text, once.
TypeText ==
    /\ ~navigated
    /\ Typed \notin Range(inputText)
    /\ inputText' = Append(inputText, Typed)
    /\ UNCHANGED <<botVars, isRecording, isProcessing, loading, navigated, recorders,
                   botInput>>

\* The microphone button (lines 211-221) is enabled.
MicrophoneEnabled == ~navigated /\ ~isProcessing

\* startRecording, lines 75-103, with getUserMedia granted.
StartRecording ==
    /\ MicrophoneEnabled
    /\ ~isRecording
    /\ MediaRecorderRef < MaxRecordings
    /\ recorders' = [recorders EXCEPT ![MediaRecorderRef + 1] = "recording"]
    /\ isRecording' = TRUE
    /\ UNCHANGED <<botVars, inputText, isProcessing, loading, navigated, botInput>>

\* stopRecording, lines 106-117: stop() returns at once, the recorder's stop
\* event is delivered later.
StopRecording ==
    /\ MicrophoneEnabled
    /\ isRecording
    /\ recorders' = IF MediaRecorderRef > 0
                    THEN [recorders EXCEPT ![MediaRecorderRef] = "stopping"]
                    ELSE recorders
    /\ isRecording' = IF MediaRecorderRef > 0 THEN FALSE ELSE isRecording
    /\ UNCHANGED <<botVars, inputText, isProcessing, loading, navigated, botInput>>

\* mediaRecorder.onstop, lines 92-95, and transcribeAudio up to its first
\* await, lines 123-125.
OnStop(n) ==
    /\ ~navigated
    /\ recorders[n] = "stopping"
    /\ recorders' = [recorders EXCEPT ![n] = "transcribing"]
    /\ isProcessing' = TRUE
    /\ UNCHANGED <<botVars, inputText, isRecording, loading, navigated, botInput>>

\* transcribeAudio, lines 129-141: the transcript is appended to the text, or
\* the transcription fails and is logged; either way isProcessing is cleared.
TranscriptionDone(n) ==
    /\ ~navigated
    /\ recorders[n] = "transcribing"
    /\ recorders' = [recorders EXCEPT ![n] = "finished"]
    /\ \/ inputText' = inputText \o (IF Len(inputText) > 0 THEN <<Space>> ELSE <<>>)
                                 \o <<Transcript(n)>>
       \/ UNCHANGED inputText
    /\ isProcessing' = FALSE
    /\ UNCHANGED <<botVars, isRecording, loading, navigated, botInput>>

\* The submit button (lines 230-234) is enabled.
SubmitEnabled ==
    /\ ~navigated
    /\ ~loading
    /\ ~TrimmedEmpty(inputText)
    /\ ~isRecording
    /\ ~isProcessing

\* handleSubmit, lines 144-170: a recording in progress is stopped, and the
\* bot is called with the text as it is at the click.
Submit ==
    /\ SubmitEnabled
    /\ recorders' = IF isRecording /\ MediaRecorderRef > 0
                    THEN [recorders EXCEPT ![MediaRecorderRef] = "stopping"]
                    ELSE recorders
    /\ isRecording' = IF isRecording /\ MediaRecorderRef > 0 THEN FALSE ELSE isRecording
    /\ loading' = TRUE
    /\ botInput' = Some([text |-> inputText])
    /\ UNCHANGED <<botVars, inputText, isProcessing, navigated>>

\* handleSubmit, lines 172-190: the resource is created and the page is left,
\* or the error is shown and the page stays.
SubmitSettles ==
    /\ ~navigated
    /\ loading
    /\ loading' = FALSE
    /\ navigated' \in BOOLEAN
    /\ UNCHANGED <<botVars, inputText, isRecording, isProcessing, recorders, botInput>>

NextRecording ==
    \/ TypeText
    \/ StartRecording
    \/ StopRecording
    \/ \E n \in 1..MaxRecordings : OnStop(n)
    \/ \E n \in 1..MaxRecordings : TranscriptionDone(n)
    \/ Submit
    \/ SubmitSettles

SpecRecording == InitRecording /\ [][NextRecording]_vars

\* The recordings that were stopped and whose transcription has not completed.
PendingTranscriptions ==
    {n \in 1..MaxRecordings : recorders[n] \in {"stopping", "transcribing"}}

\* C30: a submit is triggered only when no stopped recording still has a
\* transcription pending; the text sent to the bot is then the text that all
\* transcripts so far have been appended to.
SubmitAfterTranscription ==
    [][(~loading /\ loading') => PendingTranscriptions = {}]_vars

====
